---- MODULE Spec2Model ----
(***************************************************************************)
(* scoped_static: a Guard over a scope-bounded reference hands out         *)
(* 'static Handles and checks, when it is dropped, that none is left.      *)
(*                                                                         *)
(* Two backends are modelled side by side:                                 *)
(*   "shared"  ScopedGuard / Scoped        (scoped.rs; ScopeGuard / Scoped *)
(*             of lib.rs is the same code): the count is the strong count  *)
(*             of an Arc, the Guard holding one reference itself;          *)
(*   "pin"     ScopedPinGuard / ScopedPin  (scoped_pin.rs): the count is   *)
(*             an AtomicUsize inside the pinned Guard, Handles keep a raw  *)
(*             pointer to it.                                              *)
(* Threads and spawned tasks are agents; every atomic operation of the     *)
(* code is one step, steps of different agents interleave freely.          *)
(***************************************************************************)
EXTENDS Integers, FiniteSets, Sequences, TLC

\* ---------------------------------------------------------------- bounds
MaxHandles == 2
MaxTasks == 1
\* stand-in for usize::MAX: the AtomicUsize wraps modulo UsizeMax + 1
UsizeMax == 7

Handles == 1..MaxHandles
Tasks == 1..MaxTasks
Main == 0
Agents == {Main} \cup Tasks
NoTask == -1
UsizeMod == UsizeMax + 1

Backends == {"shared", "pin"}
\* UncheckedScopeGuard / UncheckedScoped of lib.rs
LibBackends == {"unchecked"}
Flavors == {"current_thread", "multi_thread"}

\* what a read through a reference can yield: the value behind the
\* reference (NonCopy(1.0)), or whatever lies at the address once freed
TheValue == "value"
Garbage == "garbage"
\* std::backtrace::BacktraceStatus (non_exhaustive: "Other" is any status
\* the match does not name)
BtStatuses == {"Unsupported", "Disabled", "Captured", "Other"}
\* ROOT_MSG, the RUST_BACKTRACE hint and the rendered backtrace
RootMsg == "ROOT_MSG"
Hint == "hint"
BacktraceText == "backtrace"
\* the copies of the failure branch: in Drop for ScopedGuard, in Drop for
\* ScopedPinGuard, and utils::abort
Destructors == {"ScopedGuard", "ScopedPinGuard"}
Reporters == Destructors \cup {"utils"}
\* where the scoped value lives, i.e. what the original reference points at
RefAddress == "ref"
\* what a Handle that was never created holds
NoAddress == "none"

VARIABLES
    backend,      \* which Guard/Handle pair is in use
    cfgTest,      \* cfg(test): the failure path panics instead of aborting
    flavor,       \* scheduler running the spawned tasks
    guard,        \* "alive" | "dropped" | "forgotten"
    guardThread,  \* agent that owns the Guard
    pinned,       \* pin backend: Pin<&mut Self> has been used (lift taken)
    strong,       \* shared backend: Arc strong count (0: cell freed)
    counter,      \* pin backend: ScopedPinGuard.counter
    handle,       \* handle[h]: "unborn" | "alive" | "dropped"
    holder,       \* holder[h]: agent owning Handle h
    origin,       \* origin[h]: "none" | "lift" | "clone"
    task,         \* task[t]: "idle" | "spawned" | "finished" | "joined"
    awaiting,     \* task the main thread is suspended on, or NoTask
    valueAlive,   \* the underlying value has not been freed
    proc,         \* "running" | "aborted"
    failures,     \* times a Guard destructor took the failure path
    liveAtDrop,   \* Handles alive when the Guard destructor ran (-1: not run)
    taskAtDrop,   \* the tasks' states when the Guard destructor ran
    seenAtDrop,   \* outstanding Handles by the count the destructor read
    lastRead,     \* result of the latest read through a Handle
    staleRead,    \* a Handle was read after the Guard's destruction
    ub,           \* the execution has performed undefined behaviour
    featureChecked,  \* cargo feature "checked" is enabled
    debugAssertions, \* cfg(debug_assertions): a debug build
    shadowStrong,    \* strong count of a ScopedGuard / ScopeGuard put through
                     \* the same operations
    shadowFailures,  \* times that Guard's destructor took the failure path
    guardValue,      \* address held by the Guard's data / value field
    handleValue,     \* address held by each Handle
    binding,         \* what the Guard's variable holds: the Guard ("value"),
                     \* or with the macros a reference to it: "ref", and
                     \* "dropped" / "forgotten" once the reference was given
                     \* to mem::drop / mem::forget
    exiting,         \* the block that owns a macro-bound Guard is being left
    tSend,           \* the value type T is Send
    tSync,           \* the value type T is Sync
    featureTest,     \* cargo feature "test" is enabled
    reporter,        \* whose failure branch is running: a destructor's own
                     \* copy, or utils::abort ("none": no failure branch)
    reportPc,        \* how far the failure branch has got
    btStatus,        \* status of the captured backtrace
    msg,             \* the message built so far
    stderr,          \* what reached the diagnostic stream
    writeRes,        \* result of write_all: "none" (not called), "ok", "err"
    flushRes         \* result of flush

vars == << backend, cfgTest, flavor, guard, guardThread, pinned, strong,
           counter, handle, holder, origin, task, awaiting, valueAlive,
           proc, failures, liveAtDrop, taskAtDrop, seenAtDrop, lastRead,
           staleRead, ub, featureChecked, debugAssertions, shadowStrong,
           shadowFailures, guardValue, handleValue, binding,
           exiting, tSend, tSync,
           featureTest, reporter, reportPc, btStatus, msg, stderr, writeRes,
           flushRes >>

\* ------------------------------------------------------- code operators
\* Arc::new: the Guard's own hold
ArcNew == 1
\* faulty variant: the counter starts at one
CounterNewOne == 0 + 1
\* AtomicUsize::new(0)
CounterNew == 0

\* faulty variant: an increment that is lost
ArcCloneLost(s) == s
\* Arc::clone of the shared cell
ArcClone(s) == s + 1
\* faulty variant: the reference is released without being counted
ArcDropLost(s) == s
\* drop of one Arc reference
ArcDrop(s) == s - 1

\* faulty variant: an increment that is lost
FetchAddLost(c) == c
\* faulty variant: an increment by two
FetchAddTwice(c) == (c + 2) % UsizeMod
\* counter.fetch_add(1, SeqCst)
FetchAdd(c) == (c + 1) % UsizeMod
\* faulty variant: the decrement never reaches the counter
FetchSubLost(c) == c
\* counter.fetch_sub(1, SeqCst): wrapping
FetchSub(c) == (c + UsizeMod - 1) % UsizeMod

\* #[derive(Clone)] on ScopedPin copies `value` and the raw `counter`
\* pointer; the pointee is not touched
DeriveClonePin(c) == c

\* faulty variant: one outstanding Handle is tolerated
SharedViolationLax(s) == s > 2
\* ScopedGuard::drop: Arc::strong_count(&self.data) != 1
SharedViolation(s) == s # 1
\* faulty variant: one outstanding Handle is tolerated
PinViolationLax(c) == c > 1
\* ScopedPinGuard::drop: counter.load(SeqCst) != 0
PinViolation(c) == c # 0

\* faulty variant: the lifted reference points somewhere else
TransmuteMoved(a) == NoAddress
\* mem::transmute::<&'a T, &'static T>(value): the same address, another
\* lifetime
Transmute(a) == a

\* ScopeGuard::drop (lib.rs): Arc::strong_count(&self.data) != 1
ScopeGuardViolation(s) == s # 1

\* faulty variant: the bookkeeping follows the feature flag alone
BookkeepingFeatureOnly == featureChecked
\* cfg(any(feature = "checked", debug_assertions)): UncheckedScopeGuard
\* keeps an Arc; otherwise it keeps the bare reference
Bookkeeping == featureChecked \/ debugAssertions

\* UncheckedScopeGuard::new: Arc::new(value) under bookkeeping (0: no cell)
UncheckedNew == IF Bookkeeping THEN ArcNew ELSE 0
\* UncheckedScopeGuard::lift: self.data.clone(), or a copy of the reference
UncheckedLift(s) == IF Bookkeeping THEN ArcClone(s) ELSE s
\* derive(Clone) for UncheckedScoped: Arc::clone, or a copy of the reference
UncheckedClone(s) == IF Bookkeeping THEN ArcClone(s) ELSE s
\* drop of an UncheckedScoped, or of UncheckedScopeGuard.data
UncheckedRelease(s) == IF Bookkeeping THEN ArcDrop(s) ELSE s
\* faulty variant: the check is compiled in whatever the build
UncheckedViolationAlways(s) == s # 1
\* UncheckedScopeGuard::drop: the check exists only under bookkeeping
UncheckedViolation(s) == Bookkeeping /\ s # 1

\* faulty variant: a production build panics like a test build
AbortsNever(violation) == FALSE
\* faulty variant: a test build aborts like a production build
AbortsAlways(violation) == violation
\* a violation ends in std::process::abort() under cfg(not(test)), in
\* panic! under cfg(test)
Aborts(violation) == violation /\ ~cfgTest

\* unsafe impl<T: 'static + Send> Send for ScopedPin<T>
ScopedPinSend == tSend
\* Scoped<T> is Send by the auto trait: Arc<&'static T> is Send when
\* &'static T is Send and Sync, that is when T is Sync
ScopedSend == tSync

\* faulty variant: the message is the root message whatever the status
BuildMsgRootOnly(status) == << RootMsg >>
\* let msg = match bt.status() { ... }
BuildMsg(status) ==
    CASE status = "Unsupported" -> << RootMsg >>
      [] status = "Disabled" -> << RootMsg, Hint >>
      [] status = "Captured" -> << RootMsg, BacktraceText >>
      [] OTHER -> << RootMsg >>

\* the destructors' copies choose panic! by cfg(test)
DestructorPanics == cfgTest
\* utils::abort chooses panic! by cfg(feature = "test")
UtilsPanics == featureTest

\* ------------------------------------------------------------- helpers
Alive == {h \in Handles : handle[h] = "alive"}
Created == {h \in Handles : handle[h] # "unborn"}
Unborn == {h \in Handles : handle[h] = "unborn"}
\* Handles are created in index order
NextHandle == CHOOSE h \in Unborn : \A k \in Unborn : h <= k
IdleTasks == {t \in Tasks : task[t] = "idle"}
NextTask == CHOOSE t \in IdleTasks : \A k \in IdleTasks : t <= k

\* the count the Guard's destructor inspects, as a number of Handles
LiveCount ==
    IF backend = "shared" THEN strong - 1
    ELSE IF backend = "pin" THEN counter
    ELSE IF Bookkeeping THEN strong - 1 ELSE 0

\* the address holds the scoped value: a read of it is defined
Readable(a) == a = RefAddress /\ valueAlive

\* the Handle type may be moved to another thread (tokio::spawn and
\* std::thread::spawn require Send)
HandleSend == IF backend = "pin" THEN ScopedPinSend ELSE ScopedSend

\* the Guard whose count the shadow follows: ScopeGuard of lib.rs next to
\* UncheckedScopeGuard, ScopedGuard otherwise
ShadowViolation(s) ==
    IF backend = "unchecked" THEN ScopeGuardViolation(s) ELSE SharedViolation(s)

\* an agent can take a step: the main thread unless suspended in an await,
\* a task once spawned; a current_thread runtime polls tasks only while
\* the main future is suspended
Runnable(a) ==
    /\ proc = "running"
    /\ IF a = Main
       THEN awaiting = NoTask
       ELSE /\ task[a] = "spawned"
            /\ (flavor = "multi_thread" \/ awaiting # NoTask)

\* the Guard's counter field is still storage of a live object
CounterValid == guard # "dropped"

\* --------------------------------------------------------------- Init
Init ==
    /\ backend \in Backends
    /\ cfgTest \in BOOLEAN
    /\ flavor \in Flavors
    /\ guard = "alive"
    /\ guardThread = Main
    /\ pinned = FALSE
    /\ strong = IF backend = "shared" THEN ArcNew ELSE 0
    /\ counter = CounterNew
    /\ handle = [h \in Handles |-> "unborn"]
    /\ holder = [h \in Handles |-> Main]
    /\ origin = [h \in Handles |-> "none"]
    /\ task = [t \in Tasks |-> "idle"]
    /\ awaiting = NoTask
    /\ valueAlive = TRUE
    /\ proc = "running"
    /\ failures = 0
    /\ liveAtDrop = -1
    /\ taskAtDrop = [t \in Tasks |-> "idle"]
    /\ seenAtDrop = 0
    /\ lastRead = TheValue
    /\ staleRead = FALSE
    /\ ub = FALSE
    /\ featureChecked = FALSE
    /\ debugAssertions = TRUE
    /\ shadowStrong = ArcNew
    /\ shadowFailures = 0
    /\ guardValue = Transmute(RefAddress)
    /\ handleValue = [h \in Handles |-> NoAddress]
    /\ binding = "value"
    /\ exiting = FALSE
    /\ tSend = TRUE
    /\ tSync = TRUE
    /\ featureTest = FALSE
    /\ reporter = "none"
    /\ reportPc = "idle"
    /\ btStatus = "Unsupported"
    /\ msg = << >>
    /\ stderr = << >>
    /\ writeRes = "none"
    /\ flushRes = "none"

\* a Guard over a value of any type T, Send or not, Sync or not, with
\* spawned tasks running on other threads
InitSend ==
    /\ backend \in Backends
    /\ cfgTest \in BOOLEAN
    /\ tSend \in BOOLEAN
    /\ tSync \in BOOLEAN
    /\ flavor = "multi_thread"
    /\ guard = "alive"
    /\ guardThread = Main
    /\ pinned = FALSE
    /\ strong = IF backend = "shared" THEN ArcNew ELSE 0
    /\ counter = CounterNew
    /\ handle = [h \in Handles |-> "unborn"]
    /\ holder = [h \in Handles |-> Main]
    /\ origin = [h \in Handles |-> "none"]
    /\ task = [t \in Tasks |-> "idle"]
    /\ awaiting = NoTask
    /\ valueAlive = TRUE
    /\ proc = "running"
    /\ failures = 0
    /\ liveAtDrop = -1
    /\ taskAtDrop = [t \in Tasks |-> "idle"]
    /\ seenAtDrop = 0
    /\ lastRead = TheValue
    /\ staleRead = FALSE
    /\ ub = FALSE
    /\ featureChecked = FALSE
    /\ debugAssertions = TRUE
    /\ shadowStrong = ArcNew
    /\ shadowFailures = 0
    /\ guardValue = Transmute(RefAddress)
    /\ handleValue = [h \in Handles |-> NoAddress]
    /\ binding = "value"
    /\ exiting = FALSE
    /\ featureTest = FALSE
    /\ reporter = "none"
    /\ reportPc = "idle"
    /\ btStatus = "Unsupported"
    /\ msg = << >>
    /\ stderr = << >>
    /\ writeRes = "none"
    /\ flushRes = "none"

\* the failure branch is entered: a Guard with one lifted Handle alive is
\* being dropped and its destructor has read the count (or utils::abort
\* is called in its place), in each build mode
InitReport ==
    /\ backend \in Backends
    /\ cfgTest \in BOOLEAN
    /\ flavor = "current_thread"
    /\ guard = "alive"
    /\ guardThread = Main
    /\ pinned = (backend = "pin")
    /\ strong = IF backend = "shared" THEN ArcClone(ArcNew) ELSE 0
    /\ counter = IF backend = "pin" THEN FetchAdd(CounterNew) ELSE CounterNew
    /\ handle = [h \in Handles |-> IF h = 1 THEN "alive" ELSE "unborn"]
    /\ holder = [h \in Handles |-> Main]
    /\ origin = [h \in Handles |-> IF h = 1 THEN "lift" ELSE "none"]
    /\ task = [t \in Tasks |-> "idle"]
    /\ awaiting = NoTask
    /\ valueAlive = TRUE
    /\ proc = "running"
    /\ failures = 1
    /\ liveAtDrop = 1
    /\ taskAtDrop = [t \in Tasks |-> "idle"]
    /\ seenAtDrop = 1
    /\ lastRead = TheValue
    /\ staleRead = FALSE
    /\ ub = FALSE
    /\ featureChecked = FALSE
    /\ debugAssertions = TRUE
    /\ shadowStrong = ArcClone(ArcNew)
    /\ shadowFailures = 0
    /\ guardValue = Transmute(RefAddress)
    /\ handleValue = [h \in Handles |->
                        IF h = 1 THEN Transmute(RefAddress) ELSE NoAddress]
    /\ binding = "value"
    /\ exiting = FALSE
    /\ tSend = TRUE
    /\ tSync = TRUE
    /\ featureTest \in BOOLEAN
    /\ reporter \in {IF backend = "shared" THEN "ScopedGuard"
                    ELSE "ScopedPinGuard", "utils"}
    /\ reportPc = "start"
    /\ btStatus = "Unsupported"
    /\ msg = << >>
    /\ stderr = << >>
    /\ writeRes = "none"
    /\ flushRes = "none"

\* let guard = scoped!(ref_value) / scoped_pin_static!(guard, ref_value):
\* the Guard lives in a place of the enclosing block (an extended temporary,
\* a shadowed local), the variable holds a reference to it, and the pinned
\* Guard is pinned from the start
InitMacro ==
    /\ backend \in Backends
    /\ cfgTest \in BOOLEAN
    /\ flavor \in Flavors
    /\ guard = "alive"
    /\ guardThread = Main
    /\ pinned = (backend = "pin")
    /\ strong = IF backend = "shared" THEN ArcNew ELSE 0
    /\ counter = CounterNew
    /\ handle = [h \in Handles |-> "unborn"]
    /\ holder = [h \in Handles |-> Main]
    /\ origin = [h \in Handles |-> "none"]
    /\ task = [t \in Tasks |-> "idle"]
    /\ awaiting = NoTask
    /\ valueAlive = TRUE
    /\ proc = "running"
    /\ failures = 0
    /\ liveAtDrop = -1
    /\ taskAtDrop = [t \in Tasks |-> "idle"]
    /\ seenAtDrop = 0
    /\ lastRead = TheValue
    /\ staleRead = FALSE
    /\ ub = FALSE
    /\ featureChecked = FALSE
    /\ debugAssertions = TRUE
    /\ shadowStrong = ArcNew
    /\ shadowFailures = 0
    /\ guardValue = Transmute(RefAddress)
    /\ handleValue = [h \in Handles |-> NoAddress]
    /\ binding = "ref"
    /\ exiting = FALSE
    /\ tSend = TRUE
    /\ tSync = TRUE
    /\ featureTest = FALSE
    /\ reporter = "none"
    /\ reportPc = "idle"
    /\ btStatus = "Unsupported"
    /\ msg = << >>
    /\ stderr = << >>
    /\ writeRes = "none"
    /\ flushRes = "none"

\* UncheckedScopeGuard::new in each build configuration
InitLib ==
    /\ backend \in LibBackends
    /\ cfgTest \in BOOLEAN
    /\ flavor \in Flavors
    /\ featureChecked \in BOOLEAN
    /\ debugAssertions \in BOOLEAN
    /\ guard = "alive"
    /\ guardThread = Main
    /\ pinned = FALSE
    /\ strong = UncheckedNew
    /\ counter = CounterNew
    /\ handle = [h \in Handles |-> "unborn"]
    /\ holder = [h \in Handles |-> Main]
    /\ origin = [h \in Handles |-> "none"]
    /\ task = [t \in Tasks |-> "idle"]
    /\ awaiting = NoTask
    /\ valueAlive = TRUE
    /\ proc = "running"
    /\ failures = 0
    /\ liveAtDrop = -1
    /\ taskAtDrop = [t \in Tasks |-> "idle"]
    /\ seenAtDrop = 0
    /\ lastRead = TheValue
    /\ staleRead = FALSE
    /\ ub = FALSE
    /\ shadowStrong = ArcNew
    /\ shadowFailures = 0
    /\ guardValue = Transmute(RefAddress)
    /\ handleValue = [h \in Handles |-> NoAddress]
    /\ binding = "value"
    /\ exiting = FALSE
    /\ tSend = TRUE
    /\ tSync = TRUE
    /\ featureTest = FALSE
    /\ reporter = "none"
    /\ reportPc = "idle"
    /\ btStatus = "Unsupported"
    /\ msg = << >>
    /\ stderr = << >>
    /\ writeRes = "none"
    /\ flushRes = "none"

\* ------------------------------------------------------------ actions
\* ScopedGuard::lift / ScopedPinGuard::lift
Lift ==
    /\ guard = "alive"
    /\ Runnable(guardThread)
    /\ binding \in {"value", "ref"}
    /\ Unborn # {}
    /\ LET h == NextHandle IN
        /\ handle' = [handle EXCEPT ![h] = "alive"]
        /\ holder' = [holder EXCEPT ![h] = guardThread]
        /\ origin' = [origin EXCEPT ![h] = "lift"]
        /\ handleValue' = [handleValue EXCEPT ![h] = guardValue]
    /\ IF backend = "shared"
       THEN /\ strong' = ArcClone(strong)
            /\ UNCHANGED << counter, pinned >>
       ELSE IF backend = "pin"
       THEN /\ counter' = FetchAdd(counter)
            /\ pinned' = TRUE
            /\ UNCHANGED strong
       ELSE /\ strong' = UncheckedLift(strong)
            /\ UNCHANGED << counter, pinned >>
    /\ shadowStrong' = ArcClone(shadowStrong)
    /\ UNCHANGED << backend, cfgTest, flavor, guard, guardThread, task,
                    awaiting, valueAlive, proc, failures, liveAtDrop,
                    taskAtDrop, seenAtDrop, lastRead, staleRead, ub,
                    featureChecked, debugAssertions, shadowFailures,
                    guardValue, binding, exiting, tSend, tSync, featureTest,
                    reporter, reportPc, btStatus, msg, stderr, writeRes,
                    flushRes >>

\* Clone for Scoped (Arc::clone) / ScopedPin (derived)
Clone(h) ==
    /\ handle[h] = "alive"
    /\ Runnable(holder[h])
    /\ Unborn # {}
    /\ LET n == NextHandle IN
        /\ handle' = [handle EXCEPT ![n] = "alive"]
        /\ holder' = [holder EXCEPT ![n] = holder[h]]
        /\ origin' = [origin EXCEPT ![n] = "clone"]
        /\ handleValue' = [handleValue EXCEPT ![n] = handleValue[h]]
    /\ IF backend = "shared"
       THEN /\ strong' = ArcClone(strong)
            /\ UNCHANGED counter
       ELSE IF backend = "pin"
       THEN /\ counter' = DeriveClonePin(counter)
            /\ UNCHANGED strong
       ELSE /\ strong' = UncheckedClone(strong)
            /\ UNCHANGED counter
    /\ shadowStrong' = ArcClone(shadowStrong)
    /\ UNCHANGED << backend, cfgTest, flavor, guard, guardThread, pinned,
                    task, awaiting, valueAlive, proc, failures, liveAtDrop,
                    taskAtDrop, seenAtDrop, lastRead, staleRead, ub,
                    featureChecked, debugAssertions, shadowFailures,
                    guardValue, binding, exiting, tSend, tSync, featureTest,
                    reporter, reportPc, btStatus, msg, stderr, writeRes,
                    flushRes >>

\* faulty variant: a read that takes a hold on the count
HandleReadCounting(h) ==
    /\ handle[h] = "alive"
    /\ Runnable(holder[h])
    /\ IF Readable(handleValue[h])
       THEN /\ lastRead' = TheValue
            /\ UNCHANGED ub
       ELSE /\ lastRead' \in {TheValue, Garbage}
            /\ ub' = TRUE
    /\ staleRead' = (staleRead \/ guard = "dropped")
    /\ strong' = ArcClone(strong)
    /\ counter' = FetchAdd(counter)
    /\ UNCHANGED << backend, cfgTest, flavor, guard, guardThread, pinned,
                    handle, holder, origin, task, awaiting, valueAlive, proc,
                    failures, liveAtDrop, taskAtDrop, seenAtDrop,
                    featureChecked, debugAssertions, shadowStrong,
                    shadowFailures, guardValue, handleValue, binding,
                    exiting, tSend, tSync, featureTest, reporter, reportPc,
                    btStatus, msg, stderr, writeRes, flushRes >>

\* Deref for Scoped / ScopedPin: a read through the 'static reference.
\* Once the value is freed the reference dangles and the read is undefined
\* behaviour: it may still see the old bytes or anything else.
HandleRead(h) ==
    /\ handle[h] = "alive"
    /\ Runnable(holder[h])
    /\ IF Readable(handleValue[h])
       THEN /\ lastRead' = TheValue
            /\ UNCHANGED ub
       ELSE /\ lastRead' \in {TheValue, Garbage}
            /\ ub' = TRUE
    /\ staleRead' = (staleRead \/ guard = "dropped")
    /\ UNCHANGED << backend, cfgTest, flavor, guard, guardThread, pinned,
                    strong, counter, handle, holder, origin, task, awaiting,
                    valueAlive, proc, failures, liveAtDrop, taskAtDrop,
                    seenAtDrop, featureChecked, debugAssertions,
                    shadowStrong, shadowFailures, guardValue, handleValue,
                    binding, exiting, tSend, tSync, featureTest, reporter,
                    reportPc, btStatus, msg, stderr, writeRes, flushRes >>

\* Deref for ScopedGuard / ScopedPinGuard: a read of the value through the
\* Guard
GuardRead ==
    /\ guard = "alive"
    /\ Runnable(guardThread)
    /\ IF Readable(guardValue)
       THEN /\ lastRead' = TheValue
            /\ UNCHANGED ub
       ELSE /\ lastRead' \in {TheValue, Garbage}
            /\ ub' = TRUE
    /\ UNCHANGED << backend, cfgTest, flavor, guard, guardThread, pinned,
                    strong, counter, handle, holder, origin, task, awaiting,
                    valueAlive, proc, failures, liveAtDrop, taskAtDrop,
                    seenAtDrop, staleRead, featureChecked, debugAssertions,
                    shadowStrong, shadowFailures, guardValue, handleValue,
                    binding, exiting, tSend, tSync, featureTest, reporter,
                    reportPc, btStatus, msg, stderr, writeRes, flushRes >>

\* faulty variant: a Handle dropped after its Guard reports a failure
HandleDropChecking(h) ==
    /\ handle[h] = "alive"
    /\ Runnable(holder[h])
    /\ handle' = [handle EXCEPT ![h] = "dropped"]
    /\ IF backend = "shared"
       THEN /\ strong' = ArcDrop(strong)
            /\ UNCHANGED << counter, ub >>
       ELSE IF backend = "pin"
       THEN /\ UNCHANGED strong
            /\ IF CounterValid
               THEN /\ counter' = FetchSub(counter)
                    /\ UNCHANGED ub
               ELSE /\ counter' \in {counter, FetchSub(counter)}
                    /\ ub' = TRUE
       ELSE /\ strong' = UncheckedRelease(strong)
            /\ UNCHANGED << counter, ub >>
    /\ shadowStrong' = ArcDrop(shadowStrong)
    /\ failures' = IF guard = "alive" THEN failures ELSE failures + 1
    /\ UNCHANGED << backend, cfgTest, flavor, guard, guardThread, pinned,
                    holder, origin, task, awaiting, valueAlive, proc,
                    liveAtDrop, taskAtDrop, seenAtDrop, lastRead, staleRead,
                    featureChecked, debugAssertions, shadowFailures,
                    guardValue, handleValue, binding, exiting, tSend, tSync,
                    featureTest, reporter, reportPc, btStatus, msg, stderr,
                    writeRes, flushRes >>

\* drop of a Scoped (Arc drop) / Drop for ScopedPin (fetch_sub through the
\* raw pointer). With the Guard gone the pointer dangles: the write may or
\* may not land on what was the counter.
HandleDrop(h) ==
    /\ handle[h] = "alive"
    /\ Runnable(holder[h])
    /\ handle' = [handle EXCEPT ![h] = "dropped"]
    /\ IF backend = "shared"
       THEN /\ strong' = ArcDrop(strong)
            /\ UNCHANGED << counter, ub >>
       ELSE IF backend = "pin"
       THEN /\ UNCHANGED strong
            /\ IF CounterValid
               THEN /\ counter' = FetchSub(counter)
                    /\ UNCHANGED ub
               ELSE /\ counter' \in {counter, FetchSub(counter)}
                    /\ ub' = TRUE
       ELSE /\ strong' = UncheckedRelease(strong)
            /\ UNCHANGED << counter, ub >>
    /\ shadowStrong' = ArcDrop(shadowStrong)
    /\ UNCHANGED << backend, cfgTest, flavor, guard, guardThread, pinned,
                    holder, origin, task, awaiting, valueAlive, proc,
                    failures, liveAtDrop, taskAtDrop, seenAtDrop, lastRead,
                    staleRead, featureChecked, debugAssertions,
                    shadowFailures, guardValue, handleValue, binding,
                    exiting, tSend, tSync, featureTest, reporter, reportPc,
                    btStatus, msg, stderr, writeRes, flushRes >>

\* tokio::spawn(async move { lifted ... }): the Handle moves into a new task
Spawn(h) ==
    /\ Runnable(Main)
    /\ HandleSend
    /\ handle[h] = "alive"
    /\ holder[h] = Main
    /\ IdleTasks # {}
    /\ LET t == NextTask IN
        /\ task' = [task EXCEPT ![t] = "spawned"]
        /\ holder' = [holder EXCEPT ![h] = t]
    /\ UNCHANGED << backend, cfgTest, flavor, guard, guardThread, pinned,
                    strong, counter, handle, origin, awaiting, valueAlive,
                    proc, failures, liveAtDrop, taskAtDrop, seenAtDrop,
                    lastRead, staleRead, ub, featureChecked, debugAssertions,
                    shadowStrong, shadowFailures, guardValue, handleValue,
                    binding, exiting, tSend, tSync, featureTest, reporter,
                    reportPc, btStatus, msg, stderr, writeRes, flushRes >>

\* the task's future completes: everything it captured has been dropped
TaskFinish(t) ==
    /\ Runnable(t)
    /\ \A h \in Alive : holder[h] # t
    /\ ~(guard = "alive" /\ guardThread = t)
    /\ task' = [task EXCEPT ![t] = "finished"]
    /\ UNCHANGED << backend, cfgTest, flavor, guard, guardThread, pinned,
                    strong, counter, handle, holder, origin, awaiting,
                    valueAlive, proc, failures, liveAtDrop, taskAtDrop,
                    seenAtDrop, lastRead, staleRead, ub, featureChecked,
                    debugAssertions, shadowStrong, shadowFailures,
                    guardValue, handleValue, binding, exiting, tSend, tSync,
                    featureTest, reporter, reportPc, btStatus, msg, stderr,
                    writeRes, flushRes >>

\* `.await` on the JoinHandle: the main future suspends ...
AwaitBegin(t) ==
    /\ Runnable(Main)
    /\ task[t] \in {"spawned", "finished"}
    /\ awaiting' = t
    /\ UNCHANGED << backend, cfgTest, flavor, guard, guardThread, pinned,
                    strong, counter, handle, holder, origin, task,
                    valueAlive, proc, failures, liveAtDrop, taskAtDrop,
                    seenAtDrop, lastRead, staleRead, ub, featureChecked,
                    debugAssertions, shadowStrong, shadowFailures,
                    guardValue, handleValue, binding, exiting, tSend, tSync,
                    featureTest, reporter, reportPc, btStatus, msg, stderr,
                    writeRes, flushRes >>

\* ... and resumes once the task has completed
AwaitEnd ==
    /\ proc = "running"
    /\ awaiting # NoTask
    /\ task[awaiting] = "finished"
    /\ task' = [task EXCEPT ![awaiting] = "joined"]
    /\ awaiting' = NoTask
    /\ UNCHANGED << backend, cfgTest, flavor, guard, guardThread, pinned,
                    strong, counter, handle, holder, origin, valueAlive,
                    proc, failures, liveAtDrop, taskAtDrop, seenAtDrop,
                    lastRead, staleRead, ub, featureChecked, debugAssertions,
                    shadowStrong, shadowFailures, guardValue, handleValue,
                    binding, exiting, tSend, tSync, featureTest, reporter,
                    reportPc, btStatus, msg, stderr, writeRes, flushRes >>

\* the Guard is moved to another thread (a ScopedPinGuard only before it is
\* pinned)
MoveGuard(t) ==
    /\ guard = "alive"
    /\ Runnable(guardThread)
    /\ t # guardThread
    /\ IF t = Main THEN TRUE ELSE task[t] = "spawned"
    /\ backend = "pin" => ~pinned
    /\ guardThread' = t
    /\ UNCHANGED << backend, cfgTest, flavor, guard, pinned, strong, counter,
                    handle, holder, origin, task, awaiting, valueAlive, proc,
                    failures, liveAtDrop, taskAtDrop, seenAtDrop, lastRead,
                    staleRead, ub, featureChecked, debugAssertions,
                    shadowStrong, shadowFailures, guardValue, handleValue,
                    binding, exiting, tSend, tSync, featureTest, reporter,
                    reportPc, btStatus, msg, stderr, writeRes, flushRes >>

\* faulty variant: the destructor waits until every Handle is dropped
GuardDropWaits ==
    /\ guard = "alive"
    /\ Alive = {}
    /\ Runnable(guardThread)
    /\ liveAtDrop' = Cardinality(Alive)
    /\ taskAtDrop' = task
    /\ seenAtDrop' = LiveCount
    /\ LET violation == IF backend = "shared"
                        THEN SharedViolation(strong)
                        ELSE IF backend = "pin"
                        THEN PinViolation(counter)
                        ELSE UncheckedViolation(strong)
       IN
        /\ failures' = IF violation THEN failures + 1 ELSE failures
        /\ IF Aborts(violation)
           THEN /\ proc' = "aborted"
                /\ UNCHANGED << guard, strong, shadowStrong >>
           ELSE /\ guard' = "dropped"
                /\ strong' = IF backend = "shared" THEN ArcDrop(strong)
                              ELSE IF backend = "pin" THEN strong
                              ELSE UncheckedRelease(strong)
                /\ shadowStrong' = ArcDrop(shadowStrong)
                /\ UNCHANGED proc
    /\ shadowFailures' = IF ShadowViolation(shadowStrong)
                         THEN shadowFailures + 1 ELSE shadowFailures
    /\ UNCHANGED << backend, cfgTest, flavor, guardThread, pinned, counter,
                    handle, holder, origin, task, awaiting, valueAlive,
                    lastRead, staleRead, ub, featureChecked, debugAssertions,
                    guardValue, handleValue, binding, exiting, tSend, tSync,
                    featureTest, reporter, reportPc, btStatus, msg, stderr,
                    writeRes, flushRes >>

\* Drop for ScopedGuard / ScopedPinGuard. On a violation: cfg(not(test))
\* writes the message and calls process::abort(); cfg(test) panics, and
\* the unwinding drops the Guard's fields.
GuardDrop ==
    /\ guard = "alive"
    /\ Runnable(guardThread)
    /\ liveAtDrop' = Cardinality(Alive)
    /\ taskAtDrop' = task
    /\ seenAtDrop' = LiveCount
    /\ LET violation == IF backend = "shared"
                        THEN SharedViolation(strong)
                        ELSE IF backend = "pin"
                        THEN PinViolation(counter)
                        ELSE UncheckedViolation(strong)
       IN
        /\ failures' = IF violation THEN failures + 1 ELSE failures
        /\ IF Aborts(violation)
           THEN /\ proc' = "aborted"
                /\ UNCHANGED << guard, strong, shadowStrong >>
           ELSE /\ guard' = "dropped"
                /\ strong' = IF backend = "shared" THEN ArcDrop(strong)
                              ELSE IF backend = "pin" THEN strong
                              ELSE UncheckedRelease(strong)
                /\ shadowStrong' = ArcDrop(shadowStrong)
                /\ UNCHANGED proc
    /\ shadowFailures' = IF ShadowViolation(shadowStrong)
                         THEN shadowFailures + 1 ELSE shadowFailures
    /\ UNCHANGED << backend, cfgTest, flavor, guardThread, pinned, counter,
                    handle, holder, origin, task, awaiting, valueAlive,
                    lastRead, staleRead, ub, featureChecked, debugAssertions,
                    guardValue, handleValue, binding, exiting, tSend, tSync,
                    featureTest, reporter, reportPc, btStatus, msg, stderr,
                    writeRes, flushRes >>

\* faulty variant: forgetting the Guard still runs the destructor's check
GuardForgetChecked ==
    /\ guard = "alive"
    /\ Runnable(guardThread)
    /\ guard' = "forgotten"
    /\ failures' = IF LiveCount # 0 THEN failures + 1 ELSE failures
    /\ UNCHANGED << backend, cfgTest, flavor, guardThread, pinned, strong,
                    counter, handle, holder, origin, task, awaiting,
                    valueAlive, proc, liveAtDrop, taskAtDrop, seenAtDrop,
                    lastRead, staleRead, ub, featureChecked, debugAssertions,
                    shadowStrong, shadowFailures, guardValue, handleValue,
                    binding, exiting, tSend, tSync, featureTest, reporter,
                    reportPc, btStatus, msg, stderr, writeRes, flushRes >>

\* std::mem::forget(guard): the destructor never runs
GuardForget ==
    /\ guard = "alive"
    /\ Runnable(guardThread)
    /\ guard' = "forgotten"
    /\ UNCHANGED << backend, cfgTest, flavor, guardThread, pinned, strong,
                    counter, handle, holder, origin, task, awaiting,
                    valueAlive, proc, failures, liveAtDrop, taskAtDrop,
                    seenAtDrop, lastRead, staleRead, ub, featureChecked,
                    debugAssertions, shadowStrong, shadowFailures,
                    guardValue, handleValue, binding, exiting, tSend, tSync,
                    featureTest, reporter, reportPc, btStatus, msg, stderr,
                    writeRes, flushRes >>

\* std::mem::drop(concrete_value): possible once the Guard's borrow ended
DropValue ==
    /\ Runnable(Main)
    /\ valueAlive
    /\ guard # "alive"
    /\ valueAlive' = FALSE
    /\ UNCHANGED << backend, cfgTest, flavor, guard, guardThread, pinned,
                    strong, counter, handle, holder, origin, task, awaiting,
                    proc, failures, liveAtDrop, taskAtDrop, seenAtDrop,
                    lastRead, staleRead, ub, featureChecked, debugAssertions,
                    shadowStrong, shadowFailures, guardValue, handleValue,
                    binding, exiting, tSend, tSync, featureTest, reporter,
                    reportPc, btStatus, msg, stderr, writeRes, flushRes >>

\* std::mem::drop(guard) on a macro-bound Guard: the reference is moved
\* into drop and dropped; a reference has no destructor
RefDrop ==
    /\ binding = "ref"
    /\ guard = "alive"
    /\ Runnable(guardThread)
    /\ binding' = "dropped"
    /\ UNCHANGED << backend, cfgTest, flavor, guard, guardThread, pinned,
                    strong, counter, handle, holder, origin, task, awaiting,
                    valueAlive, proc, failures, liveAtDrop, taskAtDrop,
                    seenAtDrop, lastRead, staleRead, ub, featureChecked,
                    debugAssertions, shadowStrong, shadowFailures,
                    guardValue, handleValue, exiting, tSend, tSync,
                    featureTest, reporter, reportPc, btStatus, msg, stderr,
                    writeRes, flushRes >>

\* std::mem::forget(guard) on a macro-bound Guard: the reference is moved
\* into forget; the Guard itself is not forgotten
RefForget ==
    /\ binding = "ref"
    /\ guard = "alive"
    /\ Runnable(guardThread)
    /\ binding' = "forgotten"
    /\ UNCHANGED << backend, cfgTest, flavor, guard, guardThread, pinned,
                    strong, counter, handle, holder, origin, task, awaiting,
                    valueAlive, proc, failures, liveAtDrop, taskAtDrop,
                    seenAtDrop, lastRead, staleRead, ub, featureChecked,
                    debugAssertions, shadowStrong, shadowFailures,
                    guardValue, handleValue, exiting, tSend, tSync,
                    featureTest, reporter, reportPc, btStatus, msg, stderr,
                    writeRes, flushRes >>

\* control leaves the block that owns the macro-bound Guard: its locals
\* are dropped in reverse order of declaration
ScopeExit ==
    /\ binding # "value"
    /\ guard = "alive"
    /\ Runnable(guardThread)
    /\ ~exiting
    /\ exiting' = TRUE
    /\ UNCHANGED << backend, cfgTest, flavor, guard, guardThread, pinned,
                    strong, counter, handle, holder, origin, task, awaiting,
                    valueAlive, proc, failures, liveAtDrop, taskAtDrop,
                    seenAtDrop, lastRead, staleRead, ub, featureChecked,
                    debugAssertions, shadowStrong, shadowFailures,
                    guardValue, handleValue, binding, tSend, tSync,
                    featureTest, reporter, reportPc, btStatus, msg, stderr,
                    writeRes, flushRes >>

\* Handles kept in locals of the block: declared after the Guard (they come
\* from it), so dropped before it
Locals == {h \in Alive : holder[h] = Main}

\* the last step of leaving the block: the place that holds the Guard is
\* dropped, which runs the Guard's destructor
ScopeEnd ==
    /\ exiting
    /\ Locals = {}
    /\ GuardDrop

Next ==
    \/ GuardRead
    \/ Lift
    \/ \E h \in Handles : Clone(h)
    \/ \E h \in Handles : HandleRead(h)
    \/ \E h \in Handles : HandleDrop(h)
    \/ \E h \in Handles : Spawn(h)
    \/ \E t \in Tasks : TaskFinish(t)
    \/ \E t \in Tasks : AwaitBegin(t)
    \/ AwaitEnd
    \/ \E t \in Agents : MoveGuard(t)
    \/ GuardDrop
    \/ GuardForget
    \/ DropValue

Spec == Init /\ [][Next]_vars

\* a thread that is leaving the block does nothing but drop its locals
Busy(a) == a = Main /\ exiting

\* a Guard bound with scoped! / scoped_pin_static!: it cannot be moved,
\* dropped or forgotten by value; it is dropped when its block is left
NextMacro ==
    \/ ~Busy(Main) /\ GuardRead
    \/ ~Busy(Main) /\ Lift
    \/ \E h \in Handles : ~Busy(holder[h]) /\ Clone(h)
    \/ \E h \in Handles : ~Busy(holder[h]) /\ HandleRead(h)
    \/ \E h \in Handles : HandleDrop(h)
    \/ \E h \in Handles : ~Busy(Main) /\ Spawn(h)
    \/ \E t \in Tasks : TaskFinish(t)
    \/ \E t \in Tasks : ~Busy(Main) /\ AwaitBegin(t)
    \/ AwaitEnd
    \/ RefDrop
    \/ RefForget
    \/ ScopeExit
    \/ ScopeEnd
    \/ DropValue

SpecMacro == InitMacro /\ [][NextMacro]_vars

\* Guards and Handles over every kind of value type, Handles moving to
\* other threads where their type allows it
NextSend ==
    \/ GuardRead
    \/ Lift
    \/ \E h \in Handles : Clone(h)
    \/ \E h \in Handles : HandleRead(h)
    \/ \E h \in Handles : HandleDrop(h)
    \/ \E h \in Handles : Spawn(h)
    \/ \E t \in Tasks : TaskFinish(t)
    \/ GuardDrop

SpecSend == InitSend /\ [][NextSend]_vars

\* whether the running copy of the failure branch is the panic! one
Panics == IF reporter = "utils" THEN UtilsPanics ELSE DestructorPanics

\* let bt = std::backtrace::Backtrace::capture()
ReportCapture ==
    /\ reportPc = "start"
    /\ ~Panics
    /\ btStatus' \in BtStatuses
    /\ reportPc' = "captured"
    /\ UNCHANGED << backend, cfgTest, flavor, guard, guardThread, pinned,
                    strong, counter, handle, holder, origin, task, awaiting,
                    valueAlive, proc, failures, liveAtDrop, taskAtDrop,
                    seenAtDrop, lastRead, staleRead, ub, featureChecked,
                    debugAssertions, shadowStrong, shadowFailures,
                    guardValue, handleValue, binding, exiting, tSend, tSync,
                    featureTest, reporter, msg, stderr, writeRes, flushRes >>

\* let msg = match bt.status() { ... }
ReportBuild ==
    /\ reportPc = "captured"
    /\ msg' = BuildMsg(btStatus)
    /\ reportPc' = "built"
    /\ UNCHANGED << backend, cfgTest, flavor, guard, guardThread, pinned,
                    strong, counter, handle, holder, origin, task, awaiting,
                    valueAlive, proc, failures, liveAtDrop, taskAtDrop,
                    seenAtDrop, lastRead, staleRead, ub, featureChecked,
                    debugAssertions, shadowStrong, shadowFailures,
                    guardValue, handleValue, binding, exiting, tSend, tSync,
                    featureTest, reporter, btStatus, stderr, writeRes,
                    flushRes >>

\* let _ = std::io::stderr().write_all(msg.as_bytes()): the result is
\* discarded
ReportWrite ==
    /\ reportPc = "built"
    /\ \E res \in {"ok", "err"} :
        /\ writeRes' = res
        /\ stderr' = IF res = "ok" THEN msg ELSE stderr
    /\ reportPc' = "written"
    /\ UNCHANGED << backend, cfgTest, flavor, guard, guardThread, pinned,
                    strong, counter, handle, holder, origin, task, awaiting,
                    valueAlive, proc, failures, liveAtDrop, taskAtDrop,
                    seenAtDrop, lastRead, staleRead, ub, featureChecked,
                    debugAssertions, shadowStrong, shadowFailures,
                    guardValue, handleValue, binding, exiting, tSend, tSync,
                    featureTest, reporter, btStatus, msg, flushRes >>

\* let _ = std::io::stderr().flush(): the result is discarded
ReportFlush ==
    /\ reportPc = "written"
    /\ flushRes' \in {"ok", "err"}
    /\ reportPc' = "flushed"
    /\ UNCHANGED << backend, cfgTest, flavor, guard, guardThread, pinned,
                    strong, counter, handle, holder, origin, task, awaiting,
                    valueAlive, proc, failures, liveAtDrop, taskAtDrop,
                    seenAtDrop, lastRead, staleRead, ub, featureChecked,
                    debugAssertions, shadowStrong, shadowFailures,
                    guardValue, handleValue, binding, exiting, tSend, tSync,
                    featureTest, reporter, btStatus, msg, stderr, writeRes >>

\* std::process::abort()
ReportAbort ==
    /\ reportPc = "flushed"
    /\ proc' = "aborted"
    /\ reportPc' = "aborted"
    /\ UNCHANGED << backend, cfgTest, flavor, guard, guardThread, pinned,
                    strong, counter, handle, holder, origin, task, awaiting,
                    valueAlive, failures, liveAtDrop, taskAtDrop, seenAtDrop,
                    lastRead, staleRead, ub, featureChecked, debugAssertions,
                    shadowStrong, shadowFailures, guardValue, handleValue,
                    binding, exiting, tSend, tSync, featureTest, reporter,
                    btStatus, msg, stderr, writeRes, flushRes >>

\* panic!("{}", ROOT_MSG): the thread unwinds; in a destructor the
\* unwinding drops the Guard's fields
ReportPanic ==
    /\ reportPc = "start"
    /\ Panics
    /\ reportPc' = "panicked"
    /\ IF reporter \in Destructors
       THEN /\ guard' = "dropped"
            /\ strong' = IF backend = "shared" THEN ArcDrop(strong) ELSE strong
            /\ shadowStrong' = ArcDrop(shadowStrong)
       ELSE UNCHANGED << guard, strong, shadowStrong >>
    /\ UNCHANGED << backend, cfgTest, flavor, guardThread, pinned, counter,
                    handle, holder, origin, task, awaiting, valueAlive, proc,
                    failures, liveAtDrop, taskAtDrop, seenAtDrop, lastRead,
                    staleRead, ub, featureChecked, debugAssertions,
                    shadowFailures, guardValue, handleValue, binding,
                    exiting, tSend, tSync, featureTest, reporter, btStatus,
                    msg, stderr, writeRes, flushRes >>

\* the failure branch, step by step
NextReport ==
    \/ ReportCapture
    \/ ReportBuild
    \/ ReportWrite
    \/ ReportFlush
    \/ ReportAbort
    \/ ReportPanic

SpecReport == InitReport /\ [][NextReport]_vars

\* the UncheckedScopeGuard family of lib.rs, in every build configuration
SpecLib == InitLib /\ [][Next]_vars

\* ================================================================ claims
\* the Guard's destructor has run (to completion, or into the abort)
GuardDropRan == liveAtDrop # -1

\* C1: in a production build of either backend, once the Guard's
\* destruction has completed in a running process no Handle is alive, and
\* no Handle is ever read after that destruction.
C1_NoHandleOutlivesGuard ==
    ~cfgTest =>
        /\ (guard = "dropped" /\ proc = "running") => Alive = {}
        /\ ~staleRead

\* C2: shared backend: a Guard dropped while at least one Handle (lifted or
\* cloned) is alive takes the failure path, exactly once, whichever thread
\* drops it.
C2_SharedDetects ==
    backend = "shared" =>
        /\ liveAtDrop >= 1 => failures = 1
        /\ failures <= 1

C2_Witness ==
    /\ backend = "shared"
    /\ liveAtDrop >= 1
    /\ failures = 1
    /\ guardThread # Main
    /\ \E h \in Created : origin[h] = "clone"
    /\ \E h \in Created : holder[h] # guardThread

\* C3: pin backend: a Guard dropped while at least one Handle (lifted or
\* cloned) is alive takes the failure path, exactly once.
C3_PinDetects ==
    backend = "pin" =>
        /\ liveAtDrop >= 1 => failures = 1
        /\ failures <= 1

\* C4: shared backend: a Guard dropped after every derived Handle has been
\* dropped completes normally, without the failure path.
C4_SharedNoFalsePositive ==
    (backend = "shared" /\ liveAtDrop = 0) =>
        /\ failures = 0
        /\ guard = "dropped"
        /\ proc = "running"

C4_Witness ==
    /\ backend = "shared"
    /\ liveAtDrop = 0
    /\ failures = 0
    /\ guard = "dropped"
    /\ Created = Handles
    /\ \E h \in Created : origin[h] = "clone"
    /\ \E h \in Created : holder[h] \in Tasks

\* C5: pin backend: a Guard dropped after every derived Handle has been
\* dropped completes normally, without the failure path.
C5_PinNoFalsePositive ==
    (backend = "pin" /\ liveAtDrop = 0) =>
        /\ failures = 0
        /\ guard = "dropped"
        /\ proc = "running"

\* a step that duplicates a Handle
CloneStep == \E h \in Handles : origin[h] = "none" /\ origin'[h] = "clone"
\* a step that drops a Handle
HandleDropStep == \E h \in Handles : handle[h] = "alive" /\ handle'[h] = "dropped"

\* C6: pin backend: duplicating a Handle increments the Guard's counter by
\* exactly one.
C6_PinCloneIncrements ==
    [][(backend = "pin" /\ CloneStep) => counter' = (counter + 1) % UsizeMod]_vars

\* C7: both backends: while the count exists, every Handle drop lowers the
\* live count by exactly one, and with every derived Handle dropped the
\* live count is zero.
C7_CountSymmetry ==
    /\ [][(HandleDropStep /\ guard # "dropped") => LiveCount' = LiveCount - 1]_vars
    /\ []((guard # "dropped" /\ Alive = {}) => LiveCount = 0)

\* every Handle came from lift(), and each was moved into a task that the
\* main thread, owner of the Guard, had awaited before it dropped the Guard
C8_Scenario ==
    /\ GuardDropRan
    /\ guardThread = Main
    /\ Created # {}
    /\ \A h \in Created :
        /\ origin[h] = "lift"
        /\ holder[h] \in Tasks
        /\ taskAtDrop[holder[h]] = "joined"

\* C8: both backends: a Handle moved to a task and dropped there, the task
\* awaited before the Guard is dropped: the destructor's check observes the
\* decrement and completes normally.
C8_JoinedDropObserved ==
    C8_Scenario =>
        /\ seenAtDrop = 0
        /\ failures = 0
        /\ guard = "dropped"
        /\ proc = "running"

C8_Witness ==
    /\ C8_Scenario
    /\ backend = "pin"
    /\ failures = 0
    /\ guard = "dropped"

\* every Handle came from lift(), one of them was moved into a task, and
\* the main thread dropped the Guard without having awaited any task
C9_Scenario ==
    /\ GuardDropRan
    /\ guardThread = Main
    /\ \A h \in Created : origin[h] = "lift"
    /\ \E h \in Created :
        /\ holder[h] \in Tasks
        /\ taskAtDrop[holder[h]] \in {"spawned", "finished"}
    /\ \A t \in Tasks : taskAtDrop[t] # "joined"

\* C9 as stated: with a Handle moved to a task that is not awaited and the
\* Guard dropped right away, the destructor takes the failure path in every
\* interleaving.
C9_AlwaysDetected == C9_Scenario => failures = 1

\* C9 as amended: the destructor takes the failure path whenever the task
\* has not dropped the Handle before the check, which is always so on a
\* current_thread runtime.
C9_DetectedUnlessTaskRanFirst ==
    (C9_Scenario /\ (flavor = "current_thread" \/ liveAtDrop >= 1))
        => failures = 1

C9_Witness ==
    /\ C9_Scenario
    /\ flavor = "current_thread"
    /\ backend = "pin"
    /\ failures = 1
    /\ liveAtDrop = 1

\* C10: a leaked Guard never takes the failure path, whatever Handles are
\* alive and whatever becomes of the value; its destructor's check never
\* runs, and the Handles stay readable.
C10_LeakNeverFails ==
    guard = "forgotten" =>
        /\ failures = 0
        /\ ~GuardDropRan
        /\ proc = "running"
        /\ \A h \in Alive : Runnable(holder[h]) => ENABLED HandleRead(h)

C10_Witness ==
    /\ guard = "forgotten"
    /\ Alive # {}
    /\ ~valueAlive
    /\ ub
    /\ failures = 0

\* C11: in a production build (no cfg(test)) the failure path is terminal:
\* the destructor that takes it never returns (the Guard is never seen
\* dropped), the process is gone, and no operation of any thread happens
\* afterwards.
C11_FailurePathTerminal ==
    /\ []((~cfgTest /\ failures >= 1) => (proc = "aborted" /\ guard = "alive"))
    /\ [][proc # "aborted"]_vars

C11_Witness ==
    /\ ~cfgTest
    /\ failures = 1
    /\ proc = "aborted"
    /\ flavor = "multi_thread"
    /\ \E h \in Alive : holder[h] # Main /\ task[holder[h]] = "spawned"

\* C12: under cfg(test) a violation is a panic of the dropping thread: the
\* process keeps running, the Guard's fields are released by the unwinding,
\* every thread that could run still can, and the alive Handles stay
\* readable; a failure the process survives happens under cfg(test) only.
C12_TestFailureRecoverable ==
    /\ (cfgTest /\ failures >= 1) =>
        /\ proc = "running"
        /\ guard = "dropped"
        /\ \A h \in Alive : ENABLED HandleRead(h) <=> Runnable(holder[h])
    /\ (failures >= 1 /\ proc = "running") => cfgTest

C12_Witness ==
    /\ cfgTest
    /\ failures = 1
    /\ proc = "running"
    /\ lastRead = TheValue
    /\ \E h \in Alive : holder[h] = Main
    /\ \E h \in Alive : holder[h] # Main /\ Runnable(holder[h])

\* C13: in a release build without the "checked" feature UncheckedScopeGuard
\* keeps no count (no operation ever changes one), and its destructor never
\* takes the failure path: dropping it with Handles alive completes normally.
C13_UncheckedNoBookkeeping ==
    (backend = "unchecked" /\ ~featureChecked /\ ~debugAssertions) =>
        /\ strong = 0
        /\ counter = 0
        /\ failures = 0
        /\ proc = "running"
        /\ GuardDropRan => guard = "dropped"

C13_Witness ==
    /\ backend = "unchecked"
    /\ ~featureChecked
    /\ ~debugAssertions
    /\ GuardDropRan
    /\ liveAtDrop >= 1
    /\ Alive # {}
    /\ guard = "dropped"
    /\ failures = 0

\* C14: UncheckedScopeGuard counts exactly when the build is a debug build
\* or has the "checked" feature; it then keeps the count ScopeGuard keeps
\* and its destructor fails exactly when ScopeGuard's does, after the same
\* operations.
C14_UncheckedMatchesScopeGuard ==
    backend = "unchecked" =>
        /\ guard = "alive" => (strong >= 1 <=> (featureChecked \/ debugAssertions))
        /\ (featureChecked \/ debugAssertions) =>
            /\ strong = shadowStrong
            /\ failures = shadowFailures
            /\ GuardDropRan => (failures = 1 <=> liveAtDrop >= 1)

C14_Witness ==
    /\ backend = "unchecked"
    /\ debugAssertions
    /\ ~featureChecked
    /\ failures = 1
    /\ shadowFailures = 1
    /\ \E h \in Alive : origin[h] = "clone"

\* C15: while a Guard and one of its Handles are both alive, the Handle,
\* the Guard and the original reference hold one address, the value there
\* is alive, and every read returned it; no step changes the address a
\* Guard or an existing Handle holds.
C15_ValueFidelity ==
    /\ [](guard = "alive" =>
            /\ guardValue = RefAddress
            /\ Readable(guardValue)
            /\ lastRead = TheValue
            /\ \A h \in Alive : handleValue[h] = guardValue)
    /\ [][/\ guardValue' = guardValue
          /\ \A h \in Created : handleValue'[h] = handleValue[h]]_vars

C15_Witness ==
    /\ guard = "alive"
    /\ backend = "pin"
    /\ \E h \in Alive : /\ origin[h] = "clone"
                        /\ holder[h] # Main
                        /\ handleValue[h] = RefAddress
    /\ \E h \in Alive : origin[h] = "lift" /\ holder[h] = Main

\* C19: shared-counter backend: whenever the Guard is alive the Arc's strong
\* count is 1 (the Guard) plus the number of alive Handles, lifted and
\* cloned alike, on whatever threads they live.
C19_SharedCountExact ==
    (backend = "shared" /\ guard = "alive") => strong = 1 + Cardinality(Alive)

C19_Witness ==
    /\ backend = "shared"
    /\ guard = "alive"
    /\ strong = 2
    /\ \E h \in Handles : handle[h] = "dropped"
    /\ \E h \in Alive : origin[h] = "clone" /\ holder[h] # Main

\* C20: pinned-counter backend: whenever the Guard is alive its counter is
\* the number of alive Handles, lifted and duplicated alike.
C20_PinCountExact ==
    (backend = "pin" /\ guard = "alive") => counter = Cardinality(Alive)

\* C17: the two backends behave alike under new, lift, Handle read, Handle
\* drop and Guard drop: a ScopedGuard put through the operations of a
\* ScopedPinGuard keeps the same live count and its destructor fails at the
\* same drops, and in both backends a read of the alive value returns it.
\* (The shadow Guard is the shared backend: it tracks it exactly.)
C17_BackendsAgree ==
    /\ backend = "shared" => (strong = shadowStrong /\ failures = shadowFailures)
    /\ (backend = "pin" /\ \A h \in Created : origin[h] = "lift") =>
        /\ failures = shadowFailures
        /\ guard = "alive" => counter = shadowStrong - 1
        /\ GuardDropRan => seenAtDrop = liveAtDrop
    /\ valueAlive => lastRead = TheValue

C17_Witness ==
    /\ backend = "pin"
    /\ \A h \in Created : origin[h] = "lift"
    /\ cfgTest
    /\ failures = 1
    /\ shadowFailures = 1
    /\ \E h \in Handles : handle[h] = "dropped"
    /\ \E h \in Alive : holder[h] # Main

\* C18: no operation blocks. A thread that can run can always lift (from an
\* alive Guard), duplicate or drop an alive Handle, and drop the Guard,
\* whatever Handles are alive and whatever the other threads hold; a
\* destructor that has read the count (once, at that instant) has completed
\* or has taken the failure path.
C18_NothingBlocks ==
    /\ (guard = "alive" /\ Runnable(guardThread)) =>
        /\ ENABLED GuardDrop
        /\ Unborn # {} => ENABLED Lift
    /\ \A h \in Alive : Runnable(holder[h]) =>
        /\ ENABLED HandleDrop(h)
        /\ Unborn # {} => ENABLED Clone(h)
    /\ GuardDropRan =>
        /\ guard = "dropped" \/ proc = "aborted"
        /\ failures = 1 <=> seenAtDrop # 0

C18_Witness ==
    /\ GuardDropRan
    /\ flavor = "multi_thread"
    /\ failures = 1
    /\ liveAtDrop = MaxHandles
    /\ \E h \in Alive : holder[h] # Main /\ task[holder[h]] = "spawned"

\* C16: for a Guard bound with scoped! or scoped_pin_static!, mem::drop and
\* mem::forget of the binding leave the Guard alive and its destructor
\* unrun; the destructor runs when the block is left, after the block's
\* own Handles are dropped (and nothing then holds it back), and it takes
\* the failure path only if a Handle that left the block is alive.
C16_MacroGuardDropsAtScopeExit ==
    binding # "value" =>
        /\ ~exiting => (guard = "alive" /\ ~GuardDropRan /\ failures = 0)
        /\ (exiting /\ guard = "alive" /\ proc = "running" /\ Locals = {})
                => ENABLED ScopeEnd
        /\ GuardDropRan =>
            /\ exiting
            /\ Locals = {}
            /\ failures <= 1
            /\ failures = 1 => liveAtDrop >= 1

\* a step in which lift() returns a Handle
LiftStep == \E h \in Handles : origin[h] = "none" /\ origin'[h] = "lift"

\* C21: pin backend: no Handle drop decrements the Guard's counter while it
\* is zero, so the counter never holds the maximum value (which only a
\* wrap can produce: there are fewer Handles than that).
C21_PinCounterNeverWraps ==
    /\ [][(backend = "pin" /\ HandleDropStep /\ CounterValid) => counter # 0]_vars
    /\ []((backend = "pin" /\ CounterValid) => counter # UsizeMax)

\* C22: pin backend: every Handle drop happens while the Guard that owns
\* the counter still exists, in production and under cfg(test).
C22_PinCounterPointerValid ==
    [][(backend = "pin" /\ HandleDropStep) => CounterValid]_vars

\* C23: once the Guard's destructor has read a count of zero, nothing is
\* left that a Handle could come from (no Guard to lift from, no alive
\* Handle to duplicate) and no step of any thread creates a Handle.
C23_TerminalCheckStable ==
    /\ []((GuardDropRan /\ seenAtDrop = 0) => (guard # "alive" /\ Alive = {}))
    /\ [][(GuardDropRan /\ seenAtDrop = 0) => ~(LiftStep \/ CloneStep)]_vars

\* C24: a step that creates, duplicates or drops a Handle never takes the
\* failure path, runs no check, and leaves the Guard's status as it was.
C24_HandleStepsLeaveGuard ==
    [][(LiftStep \/ CloneStep \/ HandleDropStep) =>
            /\ guard' = guard
            /\ proc' = proc
            /\ failures' = failures
            /\ liveAtDrop' = liveAtDrop
            /\ seenAtDrop' = seenAtDrop]_vars

C24_Witness ==
    /\ backend = "shared"
    /\ guard = "dropped"
    /\ failures = 1
    /\ strong = 0
    /\ \E h \in Handles : handle[h] = "dropped" /\ origin[h] = "clone"

\* C25: lift() raises the count by exactly one (Arc strong count, or the
\* wrapping AtomicUsize) and returns a Handle on the Guard's thread that
\* holds the Guard's value address; the Guard's address and status, the
\* value, the outcome so far and every existing Handle stay as they were.
C25_LiftFrame ==
    [][LiftStep =>
        /\ backend = "shared" => (strong' = strong + 1 /\ counter' = counter)
        /\ backend = "pin" => (counter' = (counter + 1) % UsizeMod /\ strong' = strong)
        /\ guardValue' = guardValue
        /\ guard' = guard
        /\ guardThread' = guardThread
        /\ valueAlive' = valueAlive
        /\ proc' = proc
        /\ failures' = failures
        /\ \A h \in Created : /\ handle'[h] = handle[h]
                              /\ handleValue'[h] = handleValue[h]
                              /\ holder'[h] = holder[h]
                              /\ origin'[h] = origin[h]
        /\ \E h \in Unborn : /\ handle'[h] = "alive"
                             /\ handleValue'[h] = guardValue
                             /\ holder'[h] = guardThread
                             /\ \A g \in Unborn \ {h} : handle'[g] = "unborn"]_vars

C25_Witness ==
    /\ backend = "pin"
    /\ guard = "alive"
    /\ Alive = Handles
    /\ \A h \in Handles : origin[h] = "lift" /\ handleValue[h] = guardValue
    /\ counter = MaxHandles
    /\ \E h \in Handles : holder[h] # Main

\* C26: a Guard from which nothing was lifted has no outstanding Handle:
\* the Arc's strong count is 1, the pinned counter is 0, and its destructor
\* reads a live count of zero and completes normally.
C26_FreshGuardClean ==
    Created = {} =>
        /\ guard = "alive" =>
            /\ backend = "shared" => strong = 1
            /\ backend = "pin" => counter = 0
            /\ LiveCount = 0
        /\ GuardDropRan =>
            /\ seenAtDrop = 0
            /\ failures = 0
            /\ guard = "dropped"
            /\ proc = "running"

C26_Witness ==
    /\ Created = {}
    /\ GuardDropRan
    /\ guard = "dropped"
    /\ backend = "pin"
    /\ ~cfgTest
    /\ failures = 0

\* C27: a read through the Guard or through a Handle changes no count, no
\* Guard, no Handle, not the value and not the outcome: only what the
\* reader saw.
C27_ReadsChangeNothing ==
    [][((\E h \in Handles : HandleRead(h)) \/ GuardRead) =>
            UNCHANGED << strong, counter, guard, guardThread, pinned, handle,
                         holder, origin, valueAlive, guardValue, handleValue,
                         proc, failures, liveAtDrop, seenAtDrop >>]_vars

C27_Witness ==
    /\ GuardDropRan
    /\ cfgTest
    /\ failures = 1
    /\ staleRead
    /\ valueAlive
    /\ lastRead = TheValue
    /\ LiveCount = liveAtDrop

\* C28: a Handle is on a thread other than the Guard's only if the value
\* type is Sync, in both backends; so the Guard's thread and a Handle's
\* thread can read at the same time only a value whose type allows it.
C28_HandleCrossesThreadsOnlyIfSync ==
    /\ \A h \in Alive : holder[h] # guardThread => tSync
    /\ \A h \in Alive :
        (/\ guard = "alive"
         /\ holder[h] # guardThread
         /\ ENABLED GuardRead
         /\ ENABLED HandleRead(h)) => tSync

\* C29: the failure branch that terminates the process does so in order:
\* the message is built from the backtrace status (root message; plus the
\* hint when disabled; plus the backtrace when captured), then written,
\* then flushed, then the process is aborted; a failed write or flush
\* holds nothing back.
C29_ReporterOrder ==
    /\ msg # << >> =>
        /\ btStatus = "Unsupported" => msg = << RootMsg >>
        /\ btStatus = "Disabled" => msg = << RootMsg, Hint >>
        /\ btStatus = "Captured" => msg = << RootMsg, BacktraceText >>
        /\ btStatus = "Other" => msg = << RootMsg >>
    /\ writeRes # "none" => msg # << >>
    /\ writeRes = "ok" => stderr = msg
    /\ stderr # << >> => writeRes = "ok"
    /\ flushRes # "none" => writeRes # "none"
    /\ proc = "aborted" => (flushRes # "none" /\ reportPc = "aborted")
    /\ reportPc = "built" => ENABLED ReportWrite
    /\ reportPc = "written" => ENABLED ReportFlush
    /\ reportPc = "flushed" => ENABLED ReportAbort

C29_Witness ==
    /\ proc = "aborted"
    /\ btStatus = "Captured"
    /\ msg = << RootMsg, BacktraceText >>
    /\ writeRes = "err"
    /\ flushRes = "err"
    /\ stderr = << >>

\* C30: in every build mode a violation in a Guard's destructor ends the
\* way utils::abort ends in that mode: with the process aborted, or with a
\* panic.
C30_DestructorsUseReporter ==
    (reporter \in Destructors /\ reportPc \in {"aborted", "panicked"}) =>
        (reportPc = "panicked" <=> UtilsPanics)

====
